---- MODULE Spec2Model ----
(***************************************************************************)
(* A model of `senior`: the four language locator strategies                *)
(* (find_correct_node of rust.rs, go.rs, javascript.rs, typescript.rs), the *)
(* traversal primitives of helpers/tree_sitter.rs, and the command-line     *)
(* pipeline of main.rs (Optimizer::new, build, optimise, edit_source_file,  *)
(* main).                                                                   *)
(*                                                                          *)
(* Source text is a sequence of tokens (one token stands for one run of     *)
(* bytes).  A syntax tree is an arena: the sequence of its nodes in         *)
(* pre-order, each with its kind, the field it fills in its parent, its     *)
(* parent, its span [start, end) into the source text, and the index of its *)
(* last descendant.  A node's identity is its index in the arena.           *)
(***************************************************************************)
EXTENDS Integers, Sequences, FiniteSets, TLC

VARIABLES
    \* ---- the locator strategies and the renderer, called as functions ----
    lang,                \* the language strategy (Box<dyn SupportedLanguage>)
    file,                \* the declarations of the file under analysis
    source_file,         \* the text of the file (Optimizer.source_file)
    root_tree,           \* the parsed tree, <<>> while there is none
    parent_identifier,   \* Option<String>: None or a name
    function_identifier, \* Option<String>: None or a name
    located,             \* result of the last find_correct_node call
    edit_id,             \* node identity handed to do_render
    edit_bytes,          \* replacement bytes handed to do_render
    rendered,            \* result of the last do_render call
    first_of_kind,       \* the last find_first_of_kind_with_field_value call
    \* ---- the command-line pipeline (main) ----
    pc,                  \* the position of main
    api_key,             \* whether OPENAI_API_KEY is set
    file_name,           \* Args.file_location
    dry_run,             \* Args.dry_run
    skip_prompt,         \* Args.skip_prompt
    code,                \* Optimizer.code
    tree,                \* Optimizer.tree, <<>> for None
    function_node_id,    \* Optimizer.function_node_id
    suggestion,          \* the answer of the completion service
    answer,              \* the user's answer to "Apply suggestion?"
    edited_file,         \* the result of edit_source_file
    disk,                \* the contents of the file on disk
    trace                \* the stages main has gone through, in order

vars == <<lang, file, source_file, root_tree, parent_identifier,
          function_identifier, located, edit_id, edit_bytes, rendered,
          first_of_kind, pc, api_key, file_name, dry_run, skip_prompt, code,
          tree,
          function_node_id, suggestion, answer, edited_file, disk, trace>>

lib_vars == <<located, edit_id, edit_bytes, rendered, first_of_kind>>

main_vars == <<pc, api_key, file_name, dry_run, skip_prompt, code, tree,
               function_node_id, suggestion, answer, edited_file, disk, trace>>

-----------------------------------------------------------------------------
(* Bounds *)

\* the largest number of top-level declarations in a file handed to the
\* locator strategies
MaxItems == 3

\* the largest number of top-level declarations in a file handed to main
MaxMainItems == 2

\* the largest number of characters of a file name handed to
\* detect_language as a function
MaxNameLen == 4

None == "None"

Languages == {"rust", "go", "javascript", "typescript"}

\* names given on the command line / to find_correct_node
FunctionNames == {"f", "g"}
ParentNames == {"A", "B"}

-----------------------------------------------------------------------------
(* Syntax trees as the grammars build them *)

Leaf(kind, field, pad, tok) ==
    [kind |-> kind, field |-> field, pad |-> pad, leaf |-> TRUE,
     tok |-> tok, kids |-> <<>>]

Inner(kind, field, pad, kids) ==
    [kind |-> kind, field |-> field, pad |-> pad, leaf |-> FALSE,
     tok |-> "", kids |-> kids]

SP == <<" ">>
NL == <<"\n">>

RECURSIVE ConcatAll(_)
ConcatAll(ss) ==
    IF ss = <<>> THEN <<>> ELSE Head(ss) \o ConcatAll(Tail(ss))

\* the text a subtree was parsed from, with the white space before it
RECURSIVE TextOf(_)
TextOf(t) ==
    t.pad \o (IF t.leaf THEN <<t.tok>>
              ELSE ConcatAll([i \in 1..Len(t.kids) |-> TextOf(t.kids[i])]))

\* the arena of a subtree: its nodes in pre-order.  base is the number of
\* nodes before it, off the offset of its white space, par its parent.
RECURSIVE Flat(_, _, _, _)
RECURSIVE FlatKids(_, _, _, _, _)
Flat(t, base, off, par) ==
    LET s == off + Len(t.pad)
        me == base + 1
        sub == IF t.leaf THEN <<>> ELSE FlatKids(t.kids, 1, me, s, me)
        e == off + Len(TextOf(t))
    IN  <<[kind |-> t.kind, field |-> t.field, parent |-> par,
           start |-> s, end |-> e, last |-> me + Len(sub)]>> \o sub

FlatKids(kids, i, base, off, par) ==
    IF i > Len(kids) THEN <<>>
    ELSE LET k == Flat(kids[i], base, off, par)
         IN  k \o FlatKids(kids, i + 1, base + Len(k),
                           off + Len(TextOf(kids[i])), par)


Tok(t) == Leaf(t, "", <<>>, t)

Braces(kind, field, inner) ==
    Inner(kind, field, SP, <<Tok("{")>> \o inner \o <<Tok("}")>>)

\* ---- Rust (tree-sitter-rust) ----
\* fn n() { inner }
RustFunctionItem(n, pad, inner) ==
    Inner("function_item", "", pad,
          <<Tok("fn"),
            Leaf("identifier", "name", SP, n),
            Leaf("parameters", "parameters", <<>>, "()"),
            Braces("block", "body", inner)>>)

\* impl P { fn m() {} ... }   or   impl<T> P<T> { fn m() {} ... }
RustImplItem(p, generic, ms, pad) ==
    Inner("impl_item", "", pad,
          <<Tok("impl")>>
          \o (IF generic
              THEN <<Leaf("type_parameters", "type_parameters", <<>>, "<T>"),
                     Inner("generic_type", "type", SP,
                           <<Leaf("type_identifier", "type", <<>>, p),
                             Leaf("type_arguments", "type_arguments", <<>>, "<T>")>>)>>
              ELSE <<Leaf("type_identifier", "type", SP, p)>>)
          \o <<Braces("declaration_list", "body",
                      [i \in 1..Len(ms) |-> RustFunctionItem(ms[i], SP, <<>>)])>>)

\* ---- Go (tree-sitter-go) ----
\* func n() {}
GoFunctionDeclaration(n, pad) ==
    Inner("function_declaration", "", pad,
          <<Tok("func"),
            Leaf("identifier", "name", SP, n),
            Leaf("parameter_list", "parameters", <<>>, "()"),
            Braces("block", "body", <<>>)>>)

\* func (r P) n() {}   or   func (r *P) n() {}   or   func () n() {}
GoMethodDeclaration(recv, p, n, pad) ==
    Inner("method_declaration", "", pad,
          <<Tok("func"),
            Inner("parameter_list", "receiver", SP,
                  <<Tok("(")>>
                  \o (IF recv = "none" THEN <<>>
                      ELSE <<Inner("parameter_declaration", "", <<>>,
                               <<Leaf("identifier", "name", <<>>, "r"),
                                 IF recv = "pointer"
                                 THEN Inner("pointer_type", "type", SP,
                                            <<Tok("*"),
                                              Leaf("type_identifier", "", <<>>, p)>>)
                                 ELSE Leaf("type_identifier", "type", SP, p)>>)>>)
                  \o <<Tok(")")>>),
            Leaf("field_identifier", "name", SP, n),
            Leaf("parameter_list", "parameters", <<>>, "()"),
            Braces("block", "body", <<>>)>>)

\* ---- JavaScript and TypeScript (tree-sitter-javascript, -typescript) ----
\* function n() { inner }
JsFunctionDeclaration(n, pad, inner) ==
    Inner("function_declaration", "", pad,
          <<Tok("function"),
            Leaf("identifier", "name", SP, n),
            Leaf("formal_parameters", "parameters", <<>>, "()"),
            Braces("statement_block", "body", inner)>>)

\* () => {}
JsArrowFunction ==
    Inner("arrow_function", "value", SP,
          <<Leaf("formal_parameters", "parameters", <<>>, "()"),
            Tok("=>"),
            Braces("statement_block", "body", <<>>)>>)

\* function() {}
JsFunctionExpression ==
    Inner("function_expression", "value", SP,
          <<Tok("function"),
            Leaf("formal_parameters", "parameters", <<>>, "()"),
            Braces("statement_block", "body", <<>>)>>)

\* the async variant of a function-like node: the token "async" before it
Async(t) ==
    [t EXCEPT !.kids = <<Tok("async"), [t.kids[1] EXCEPT !.pad = SP]>>
                        \o Tail(t.kids)]

JsInitializer(init) ==
    CASE init = "arrow_function" -> <<Tok("="), JsArrowFunction>>
      [] init = "function_expression" -> <<Tok("="), JsFunctionExpression>>
      [] init = "async_arrow_function" -> <<Tok("="), Async(JsArrowFunction)>>
      [] init = "async_function_expression" ->
           <<Tok("="), Async(JsFunctionExpression)>>
      [] init = "number" ->
           <<Tok("="), Leaf("number", "value", SP, "1")>>
      [] OTHER -> <<>>

\* const n = <initializer>   or   let n
JsLexicalDeclaration(n, init, pad) ==
    Inner("lexical_declaration", "", pad,
          <<Leaf(IF init = "none" THEN "let" ELSE "const", "kind", <<>>,
                 IF init = "none" THEN "let" ELSE "const"),
            Inner("variable_declarator", "", SP,
                  <<Leaf("identifier", "name", <<>>, n)>> \o JsInitializer(init))>>)

\* class P { x = 1; m() {} ... }: the JavaScript grammar marks the members of
\* a class body with the field "member", the TypeScript grammar does not.
JsClassDeclaration(ts, p, withField, ms, pad) ==
    LET member == IF ts THEN "" ELSE "member"
    IN  Inner("class_declaration", "", pad,
              <<Tok("class"),
                Leaf(IF ts THEN "type_identifier" ELSE "identifier", "name", SP, p),
                Braces("class_body", "body",
                       (IF withField
                        THEN <<Inner(IF ts THEN "public_field_definition"
                                           ELSE "field_definition", member, SP,
                                     <<Leaf("property_identifier",
                                            IF ts THEN "name" ELSE "property",
                                            <<>>, ms[1]),
                                       Tok("="),
                                       Leaf("number", "value", <<>>, "1")>>),
                               Tok(";")>>
                        ELSE <<>>)
                       \o [i \in 1..Len(ms) |->
                             Inner("method_definition", member, SP,
                                   <<Leaf("property_identifier", "name", <<>>, ms[i]),
                                     Leaf("formal_parameters", "parameters", <<>>, "()"),
                                     Braces("statement_block", "body", <<>>)>>)])>>)

-----------------------------------------------------------------------------
(* The files the model ranges over: a file is a sequence of declarations *)

Free(n) == [t |-> "free", n |-> n, p |-> None, style |-> None]
AsyncFree(n) == [t |-> "free", n |-> n, p |-> None, style |-> "async"]
Nested(n, inner) == [t |-> "nested", n |-> n, p |-> inner, style |-> None]
Container(p, style, n) == [t |-> "container", n |-> n, p |-> p, style |-> style]
Binding(n, init) == [t |-> "binding", n |-> n, p |-> None, style |-> init]
\* a Go method whose receiver list is empty: func () n() {}
NoReceiver(n) == [t |-> "noreceiver", n |-> n, p |-> None, style |-> "none"]

\* the declarations a file of a language is made of
Items(l) ==
    CASE l = "rust" ->
           {Free("f"), Nested("g", "f"), Container("A", "plain", "f"),
            Container("A", "generic", "f"), Container("B", "plain", "f"),
            Container("A", "plain", "g")}
      [] l = "go" ->
           {Free("f"), Container("A", "value", "f"),
            Container("A", "pointer", "f"), Container("B", "value", "f"),
            NoReceiver("f")}
      [] OTHER ->
           {Free("f"), Nested("g", "f"), Container("A", "plain", "f"),
            Container("B", "field", "f"), Container("A", "plain", "g"),
            Binding("f", "arrow_function"),
            Binding("g", "function_expression"), Binding("g", "number")}

Files(l) == UNION {[1..n -> Items(l)] : n \in 0..MaxItems}

\* the subtree of one declaration
ItemTree(l, it, pad) ==
    CASE l = "rust" ->
           (CASE it.t = "free" -> RustFunctionItem(it.n, pad, <<>>)
              [] it.t = "nested" ->
                   RustFunctionItem(it.n, pad, <<RustFunctionItem(it.p, SP, <<>>)>>)
              [] OTHER -> RustImplItem(it.p, it.style = "generic", <<it.n>>, pad))
      [] l = "go" ->
           (CASE it.t = "free" -> GoFunctionDeclaration(it.n, pad)
              [] OTHER -> GoMethodDeclaration(it.style, it.p, it.n, pad))
      [] OTHER ->
           (CASE it.t = "free" ->
                   IF it.style = "async"
                   THEN Async(JsFunctionDeclaration(it.n, pad, <<>>))
                   ELSE JsFunctionDeclaration(it.n, pad, <<>>)
              [] it.t = "nested" ->
                   JsFunctionDeclaration(it.n, pad,
                                         <<JsFunctionDeclaration(it.p, SP, <<>>)>>)
              [] it.t = "binding" -> JsLexicalDeclaration(it.n, it.style, pad)
              [] OTHER -> JsClassDeclaration(l = "typescript", it.p,
                                             it.style = "field", <<it.n>>, pad))

RootKind(l) == IF l \in {"rust", "go"} THEN "source_file" ELSE "program"

RootOf(l, f) ==
    Inner(RootKind(l), "", <<>>,
          [i \in 1..Len(f) |-> ItemTree(l, f[i], IF i = 1 THEN <<>> ELSE NL)])

\* read_to_string: the text of the file, which ends with a newline
read_to_string(l, f) == TextOf(RootOf(l, f)) \o NL

\* Parser::parse: the tree of the file.  The root covers the whole text,
\* the trailing newline included.
parse(l, f) ==
    LET a == Flat(RootOf(l, f), 0, 0, 0)
    IN  [a EXCEPT ![1].end = Len(read_to_string(l, f))]

-----------------------------------------------------------------------------
(* tree_sitter::Node and tree_sitter_traversal, over an arena *)

\* Option<Node>: 0 is None
NoNode == 0

\* Node::children: the children of n, in order
children(tr, n) ==
    SelectSeq([i \in 1..(tr[n].last - n) |-> n + i],
              LAMBDA j : tr[j].parent = n)

\* Node::child(i), i counted from 0
child(tr, n, i) ==
    LET c == children(tr, n) IN IF i < Len(c) THEN c[i + 1] ELSE NoNode

\* Node::children_by_field_name
children_by_field_name(tr, n, field) ==
    SelectSeq(children(tr, n), LAMBDA j : tr[j].field = field)

\* Node::child_by_field_name: the first child in that field
child_by_field_name(tr, n, field) ==
    LET c == children_by_field_name(tr, n, field)
    IN  IF c = <<>> THEN NoNode ELSE c[1]

\* a traversal that visits the subtree from its last node to its first
traverse_reversed(tr, r) == [i \in 1..(tr[r].last - r + 1) |-> tr[r].last - i + 1]

\* a traversal that leaves the cursor's subtree: every node of the tree
traverse_whole(tr, r) == [i \in 1..Len(tr) |-> i]

\* traverse(cursor, Order::Pre): the nodes of the subtree the cursor was
\* made for, in pre-order; a cursor never leaves that subtree
traverse(tr, r) == [i \in 1..(tr[r].last - r + 1) |-> r + i - 1]

\* Iterator::find over a sequence of nodes with a closure that may panic
\* (an unwrap of None): the first element the closure accepts, unless the
\* closure panics on an element before it
SomeNode(n) == [tag |-> "Some", node |-> n]
NoneFound == [tag |-> "None", node |-> NoNode]
Panicked == [tag |-> "Panic", node |-> NoNode]

find(s, Panics(_), Accepts(_)) ==
    LET stop == {i \in 1..Len(s) : Panics(s[i]) \/ Accepts(s[i])}
        first == CHOOSE i \in stop : \A j \in stop : i <= j
    IN  IF stop = {} THEN NoneFound
        ELSE IF Panics(s[first]) THEN Panicked
        ELSE SomeNode(s[first])

Never(n) == FALSE

-----------------------------------------------------------------------------
(* helpers/tree_sitter.rs *)

node_value(source, tr, n) == SubSeq(source, tr[n].start + 1, tr[n].end)

\* a collection that stops after the first node of the kind
find_all_of_kind_first(tr, cursor, kind) ==
    LET all == SelectSeq([i \in 1..(tr[cursor].last - cursor + 1) |-> cursor + i - 1],
                         LAMBDA n : tr[n].kind = kind)
    IN  IF all = <<>> THEN <<>> ELSE <<all[1]>>

\* a collection in the order opposite to the traversal's
find_all_of_kind_reversed(tr, cursor, kind) ==
    LET all == SelectSeq([i \in 1..(tr[cursor].last - cursor + 1) |-> cursor + i - 1],
                         LAMBDA n : tr[n].kind = kind)
    IN  [i \in 1..Len(all) |-> all[Len(all) - i + 1]]

find_all_of_kind(tr, cursor, kind) ==
    SelectSeq(traverse(tr, cursor), LAMBDA n : tr[n].kind = kind)

find_first_of_kind_with_field_value(source, tr, cursor, kind, field, value) ==
    find(traverse(tr, cursor), Never,
         LAMBDA n : /\ tr[n].kind = kind
                    /\ child_by_field_name(tr, n, field) # NoNode
                    /\ node_value(source, tr, child_by_field_name(tr, n, field))
                         = value).node

-----------------------------------------------------------------------------
(* supported_languages: Result<Node, &str> *)

Ok(n) == [tag |-> "Ok", node |-> n, msg |-> ""]
Err(m) == [tag |-> "Err", node |-> NoNode, msg |-> m]
Panic == [tag |-> "Panic", node |-> NoNode, msg |-> ""]

\* an identifier as source text
Str(name) == <<name>>

\* a root_node that answers the first declaration of the file
root_node_first_child(tr) == IF Len(tr) > 1 THEN 2 ELSE 1

\* Tree::root_node
root_node(tr) == 1

\* a subject type name that is the whole text of the impl block's type
impl_type_name_whole(source, tr, i) ==
    node_value(source, tr, child_by_field_name(tr, i, "type"))

\* rust.rs: the name of the subject type of an impl block: the base type
\* name of a generic_type, the text of the type otherwise
impl_type_name(source, tr, i) ==
    LET impl_type_node == child_by_field_name(tr, i, "type")
        type_name_node == child_by_field_name(tr, impl_type_node, "type")
    IN  IF tr[impl_type_node].kind = "generic_type"
        THEN node_value(source, tr, type_name_node)
        ELSE node_value(source, tr, impl_type_node)

\* rust.rs: RustAnalyzer::find_correct_node
RustFindCorrectNode(source, tr, parent, function) ==
    LET all_impls == find_all_of_kind(tr, root_node(tr), "impl_item")
        impl_type_node(i) == child_by_field_name(tr, i, "type")
        type_name_node(i) == child_by_field_name(tr, impl_type_node(i), "type")
        Unwraps(i) ==
            \/ impl_type_node(i) = NoNode
            \/ /\ tr[impl_type_node(i)].kind = "generic_type"
               /\ type_name_node(i) = NoNode
        candidate_subtrees ==
            IF parent # None
            THEN SelectSeq(all_impls,
                           LAMBDA i : impl_type_name(source, tr, i) = Str(parent))
            ELSE <<root_node(tr)>>
        function_node ==
            find(candidate_subtrees, Never,
                 LAMBDA c : find_first_of_kind_with_field_value(
                                source, tr, c, "function_item", "name",
                                Str(function)) # NoNode)
    IN  IF function = None THEN Ok(root_node(tr))
        ELSE IF parent # None /\ \E k \in 1..Len(all_impls) : Unwraps(all_impls[k])
        THEN Panic
        ELSE IF candidate_subtrees = <<>> THEN Err("impl block not found")
        ELSE IF function_node.tag = "Some"
        THEN Ok(find_first_of_kind_with_field_value(
                    source, tr, function_node.node, "function_item", "name",
                    Str(function)))
        ELSE Err("function not found")

\* the first child of a receiver type that is not a type_identifier: the
\* token "*" of a pointer type
pointer_receiver_type_star(tr, receiver_type) == child(tr, receiver_type, 0)

\* go.rs: receiver_type.child(1).unwrap(): the type a pointer type points to
pointer_receiver_type(tr, receiver_type) == child(tr, receiver_type, 1)

\* go.rs: GoAnalyser::find_correct_node
GoFindCorrectNode(source, tr, parent, function) ==
    LET name_node(m) == child_by_field_name(tr, m, "name")
        receiver_node(m) == child_by_field_name(tr, m, "receiver")
        parameter_declaration_node(m) == child(tr, receiver_node(m), 1)
        receiver_type(m) ==
            child_by_field_name(tr, parameter_declaration_node(m), "type")
        Unwraps(m) ==
            \/ name_node(m) = NoNode
            \/ receiver_node(m) = NoNode
            \/ parameter_declaration_node(m) = NoNode
            \/ receiver_type(m) = NoNode
            \/ /\ tr[receiver_type(m)].kind # "type_identifier"
               /\ pointer_receiver_type(tr, receiver_type(m)) = NoNode
        Accepts(m) ==
            IF tr[receiver_type(m)].kind = "type_identifier"
            THEN /\ node_value(source, tr, receiver_type(m)) = Str(parent)
                 /\ node_value(source, tr, name_node(m)) = Str(function)
            ELSE /\ node_value(source, tr,
                            pointer_receiver_type(tr, receiver_type(m)))
                      = Str(parent)
                 /\ node_value(source, tr, name_node(m)) = Str(function)
        candidate_function_node ==
            find(find_all_of_kind(tr, root_node(tr), "method_declaration"),
                 Unwraps, LAMBDA m : ~Unwraps(m) /\ Accepts(m))
        function_node ==
            find(find_all_of_kind(tr, root_node(tr), "function_declaration"),
                 LAMBDA d : name_node(d) = NoNode,
                 LAMBDA d : /\ name_node(d) # NoNode
                            /\ node_value(source, tr, name_node(d)) = Str(function))
    IN  IF function = None THEN Ok(root_node(tr))
        ELSE IF parent # None
        THEN (IF candidate_function_node.tag = "Some"
              THEN Ok(candidate_function_node.node)
              ELSE IF candidate_function_node.tag = "Panic" THEN Panic
              ELSE Err("method not found"))
        ELSE IF function_node.tag = "Some" THEN Ok(function_node.node)
        ELSE IF function_node.tag = "Panic" THEN Panic
        ELSE Err("function not found")

\* an order of the structural forms that prefers the binding
free_function_binding_first(function_declaration, lexical) ==
    IF lexical.tag = "Panic" THEN Panic
    ELSE IF lexical.tag = "Some" THEN Ok(lexical.node)
    ELSE IF function_declaration # NoNode THEN Ok(function_declaration)
    ELSE Err("function not found")

\* javascript.rs, typescript.rs: the search without a parent.  The
\* function_declaration found by name is returned if there is one; only
\* then is the result of the search among the lexical declarations looked
\* at (the iterator is lazy: its closure cannot abort a call that returned
\* before).
free_function(function_declaration, lexical) ==
    IF function_declaration # NoNode THEN Ok(function_declaration)
    ELSE IF lexical.tag = "Panic" THEN Panic
    ELSE IF lexical.tag = "Some" THEN Ok(lexical.node)
    ELSE Err("function not found")

\* javascript.rs, typescript.rs: find_correct_node.  The two differ in one
\* call: the members of the class body are children_by_field_name("member")
\* in JavascriptAnalyser and children() in TypescriptAnalyser.
JsFindCorrectNode(ts, source, tr, parent, function) ==
    LET name_node(n) == child_by_field_name(tr, n, "name")
        candidate_correct_class_decl ==
            find(find_all_of_kind(tr, root_node(tr), "class_declaration"),
                 LAMBDA c : name_node(c) = NoNode,
                 LAMBDA c : /\ name_node(c) # NoNode
                            /\ node_value(source, tr, name_node(c)) = Str(parent))
        class_body == child_by_field_name(tr, candidate_correct_class_decl.node, "body")
        members == IF ts THEN children(tr, class_body)
                   ELSE children_by_field_name(tr, class_body, "member")
        method ==
            find(SelectSeq(members, LAMBDA m : tr[m].kind = "method_definition"),
                 LAMBDA m : name_node(m) = NoNode,
                 LAMBDA m : /\ name_node(m) # NoNode
                            /\ node_value(source, tr, name_node(m)) = Str(function))
        function_declaration ==
            find_first_of_kind_with_field_value(
                source, tr, root_node(tr), "function_declaration", "name",
                Str(function))
        declarator(d) == child(tr, d, 1)
        lexical ==
            find(SelectSeq(find_all_of_kind(tr, root_node(tr), "lexical_declaration"),
                           LAMBDA d : declarator(d) # NoNode),
                 LAMBDA d : name_node(declarator(d)) = NoNode,
                 LAMBDA d : /\ name_node(declarator(d)) # NoNode
                            /\ node_value(source, tr, name_node(declarator(d)))
                                 = Str(function))
    IN  IF function = None THEN Ok(root_node(tr))
        ELSE IF parent # None
        THEN (IF candidate_correct_class_decl.tag = "Panic" THEN Panic
              ELSE IF candidate_correct_class_decl.tag = "None"
              THEN Err("class not found")
              ELSE IF class_body = NoNode THEN Panic
              ELSE IF method.tag = "Panic" THEN Panic
              ELSE IF method.tag = "Some" THEN Ok(method.node)
              ELSE Err("method not found"))
        ELSE free_function(function_declaration, lexical)

\* a dispatch that drops the parent, as Optimizer::build does
find_correct_node_no_parent(l, source, tr, parent, function) ==
    CASE l = "rust" -> RustFindCorrectNode(source, tr, None, function)
      [] l = "go" -> GoFindCorrectNode(source, tr, None, function)
      [] l = "javascript" -> JsFindCorrectNode(FALSE, source, tr, None, function)
      [] OTHER -> JsFindCorrectNode(TRUE, source, tr, None, function)

\* a dispatch that searches the free declarations when the search under the
\* parent failed
find_correct_node_fallback(l, source, tr, parent, function) ==
    LET strategy(p) ==
            CASE l = "rust" -> RustFindCorrectNode(source, tr, p, function)
              [] l = "go" -> GoFindCorrectNode(source, tr, p, function)
              [] l = "javascript" -> JsFindCorrectNode(FALSE, source, tr, p, function)
              [] OTHER -> JsFindCorrectNode(TRUE, source, tr, p, function)
    IN  IF strategy(parent).tag = "Err" THEN strategy(None) ELSE strategy(parent)

\* the dynamic dispatch on Box<dyn SupportedLanguage>
find_correct_node(l, source, tr, parent, function) ==
    CASE l = "rust" -> RustFindCorrectNode(source, tr, parent, function)
      [] l = "go" -> GoFindCorrectNode(source, tr, parent, function)
      [] l = "javascript" -> JsFindCorrectNode(FALSE, source, tr, parent, function)
      [] OTHER -> JsFindCorrectNode(TRUE, source, tr, parent, function)

-----------------------------------------------------------------------------
(* Rendering: tree_sitter_edit::render with a tree_sitter_edit::Replace *)

\* text[from, to)
Slice(text, from, to) == SubSeq(text, from + 1, to)

\* render walks the tree in pre-order from node n with pos bytes of the
\* source already written: the node the editor has an edit for is written
\* as the editor's bytes and its subtree is skipped, every other leaf is
\* written as it is in the source, and so is the text between them
RECURSIVE render(_, _, _, _, _, _)
render(tr, source, id, bytes, n, pos) ==
    IF n > Len(tr) THEN Slice(source, pos, Len(source))
    ELSE IF n = id
    THEN Slice(source, pos, tr[n].start) \o bytes
         \o render(tr, source, id, bytes, tr[n].last + 1, tr[n].end)
    ELSE IF tr[n].last = n
    THEN Slice(source, pos, tr[n].end)
         \o render(tr, source, id, bytes, n + 1, tr[n].end)
    ELSE render(tr, source, id, bytes, n + 1, pos)

\* a renderer that writes the replacement and then the replaced node's
\* own leaves as well
RECURSIVE render_descend(_, _, _, _, _, _)
render_descend(tr, source, id, bytes, n, pos) ==
    IF n > Len(tr) THEN Slice(source, pos, Len(source))
    ELSE IF n = id
    THEN Slice(source, pos, tr[n].start) \o bytes
         \o render_descend(tr, source, 0, bytes, n + 1, tr[n].start)
    ELSE IF tr[n].last = n
    THEN Slice(source, pos, tr[n].end)
         \o render_descend(tr, source, id, bytes, n + 1, tr[n].end)
    ELSE render_descend(tr, source, id, bytes, n + 1, pos)

do_render_descend(tr, src, id, bytes) == render_descend(tr, src, id, bytes, 1, 0)

\* a renderer that loses the white space before the replaced node
RECURSIVE render_trim(_, _, _, _, _, _)
render_trim(tr, source, id, bytes, n, pos) ==
    IF n > Len(tr) THEN Slice(source, pos, Len(source))
    ELSE IF n = id
    THEN bytes \o render_trim(tr, source, id, bytes, tr[n].last + 1, tr[n].end)
    ELSE IF tr[n].last = n
    THEN Slice(source, pos, tr[n].end)
         \o render_trim(tr, source, id, bytes, n + 1, tr[n].end)
    ELSE render_trim(tr, source, id, bytes, n + 1, pos)

do_render_trim(tr, src, id, bytes) == render_trim(tr, src, id, bytes, 1, 0)

\* main.rs: do_render, with editor = Replace {id, bytes}
do_render(tr, src, id, bytes) == render(tr, src, id, bytes, 1, 0)

\* Option<Tree>: <<>> is None
NoTree == <<>>

Rendered(text) == [tag |-> "Ok", text |-> text]
RenderPanic == [tag |-> "Panic", text |-> <<>>]
NotLocated == [tag |-> "NotCalled", node |-> NoNode, msg |-> ""]
NotRendered == [tag |-> "NotCalled", text |-> <<>>]
NotSearched == [called |-> FALSE, cursor |-> NoNode, kind |-> "", field |-> "",
                value |-> <<>>, result |-> NoNode]

\* main.rs: Optimizer::edit_source_file; self.tree.clone().unwrap() panics
\* when build stored no tree
edit_source_file(tr, src, id, replacement) ==
    IF tr = NoTree THEN RenderPanic
    ELSE Rendered(do_render(tr, src, id, replacement))

-----------------------------------------------------------------------------
(* The locator strategies and the renderer called as functions, the way the *)
(* tests of the four strategies call them: parse a source, locate, render   *)

Queries(names) == names \cup {None}

MainIdle ==
    /\ pc = "idle"
    /\ api_key = FALSE
    /\ file_name = None
    /\ dry_run = FALSE
    /\ skip_prompt = FALSE
    /\ code = <<>>
    /\ tree = NoTree
    /\ function_node_id = 0
    /\ suggestion = <<>>
    /\ answer = None
    /\ edited_file = <<>>
    /\ disk = <<>>
    /\ trace = <<>>

InitLocate ==
    /\ lang \in Languages
    /\ file \in Files(lang)
    /\ source_file = read_to_string(lang, file)
    /\ root_tree = parse(lang, file)
    /\ parent_identifier \in Queries(ParentNames)
    /\ function_identifier \in Queries(FunctionNames)
    /\ located = NotLocated
    /\ edit_id = NoNode
    /\ edit_bytes = <<>>
    /\ rendered = NotRendered
    /\ first_of_kind = NotSearched
    /\ MainIdle

\* supported_language.find_correct_node(source, &tree, parent, function)
FindCorrectNode ==
    /\ located = NotLocated
    /\ located' = find_correct_node(lang, source_file, root_tree,
                                    parent_identifier, function_identifier)
    /\ UNCHANGED <<lang, file, source_file, root_tree, parent_identifier,
                   function_identifier, edit_id, edit_bytes, rendered,
                   first_of_kind>>
    /\ UNCHANGED main_vars

\* the replacement bytes tried for a node: nothing, other text, and the
\* node's own text
Replacements(text) == {<<>>, <<"x", " ", "y">>, text}

\* whether a node of the tree has this identity
IsNode(tr, id) == id \in 1..Len(tr)

\* the identities handed to the renderer: the located node, or, when none
\* was located, the default identity 0 of Optimizer::new and an identity
\* of no node of the tree
Identities(tr, res) ==
    IF res.tag = "Ok" THEN {res.node} ELSE {0, Len(tr) + 1}

\* do_render(&tree, source, &Replace {id, bytes})
DoRender ==
    /\ located.tag \in {"Ok", "Err"}
    /\ rendered = NotRendered
    /\ first_of_kind = NotSearched
    /\ \E id \in Identities(root_tree, located) :
         \E bytes \in IF IsNode(root_tree, id)
                       THEN Replacements(node_value(source_file, root_tree, id))
                       ELSE {<<"x", " ", "y">>} :
           /\ edit_id' = id
           /\ edit_bytes' = bytes
           /\ rendered' = Rendered(do_render(root_tree, source_file, id, bytes))
    /\ UNCHANGED <<lang, file, source_file, root_tree, parent_identifier,
                   function_identifier, located, first_of_kind>>
    /\ UNCHANGED main_vars

NextLocate == FindCorrectNode \/ DoRender

SpecLocate == InitLocate /\ [][NextLocate]_vars

\* The JavaScript and TypeScript strategies on files like the test sources
\* of javascript.rs and typescript.rs: one declaration of every
\* function-like form, each with a name of its own, in any order
FormNames == <<"f", "g", "h", "i", "j", "k">>

Forms(n) ==
    <<Free(n), AsyncFree(n),
      Binding(n, "function_expression"), Binding(n, "async_function_expression"),
      Binding(n, "arrow_function"), Binding(n, "async_arrow_function")>>

FormFiles ==
    {[i \in 1..Len(FormNames) |-> Forms(FormNames[i])[p[i]]] :
       p \in {q \in [1..Len(FormNames) -> 1..Len(FormNames)] :
                \A i, j \in 1..Len(FormNames) : q[i] = q[j] => i = j}}

InitForms ==
    /\ lang \in {"javascript", "typescript"}
    /\ file \in FormFiles
    /\ source_file = read_to_string(lang, file)
    /\ root_tree = parse(lang, file)
    /\ parent_identifier = None
    /\ function_identifier \in {FormNames[i] : i \in 1..Len(FormNames)}
    /\ located = NotLocated
    /\ edit_id = NoNode
    /\ edit_bytes = <<>>
    /\ rendered = NotRendered
    /\ first_of_kind = NotSearched
    /\ MainIdle

SpecForms == InitForms /\ [][NextLocate]_vars

-----------------------------------------------------------------------------
(* supported_language.rs: detect_language *)

\* a match that accepts the pattern's literal part anywhere in the name
RECURSIVE matches_contains(_, _)
matches_contains(patt, name) ==
    \/ /\ Len(name) >= Len(patt) - 1
       /\ SubSeq(name, 1, Len(patt) - 1) = Tail(patt)
    \/ /\ name # <<>>
       /\ matches_contains(patt, Tail(name))

\* glob::Pattern::matches with the default options: "*" stands for any
\* sequence of characters, the empty one and path separators included, and
\* every other character of the pattern for itself
RECURSIVE matches(_, _)
matches(patt, name) ==
    IF patt = <<>> THEN name = <<>>
    ELSE IF Head(patt) = "*"
    THEN \E k \in 0..Len(name) :
           matches(Tail(patt), SubSeq(name, k + 1, Len(name)))
    ELSE /\ name # <<>>
         /\ Head(name) = Head(patt)
         /\ matches(Tail(patt), Tail(name))

language_globs(language) ==
    CASE language = "go" -> {<<"*", ".", "g", "o">>}
      [] language = "javascript" ->
           {<<"*", ".", "c", "j", "s">>, <<"*", ".", "j", "s">>,
            <<"*", ".", "m", "j", "s">>}
      [] language = "rust" -> {<<"*", ".", "r", "s">>}
      [] OTHER -> {<<"*", ".", "t", "s">>}

\* the first of Rust, Go, JavaScript, TypeScript one of whose globs matches
detect_language(name) ==
    LET order == <<"rust", "go", "javascript", "typescript">>
        hits == {i \in 1..Len(order) :
                   \E patt \in language_globs(order[i]) : matches(patt, name)}
    IN  IF hits = {} THEN Err("not a supported file")
        ELSE [tag |-> "Ok", node |-> NoNode,
              msg |-> order[CHOOSE i \in hits : \A j \in hits : i <= j]]

\* find_first_of_kind_with_field_value called as a function: on the tree of
\* a file, with a cursor on the root or on one of the declarations of the
\* file, for a kind, a field and a value
SearchKinds(l) ==
    CASE l = "rust" -> {"function_item", "impl_item"}
      [] l = "go" -> {"function_declaration", "method_declaration"}
      [] OTHER -> {"function_declaration", "class_declaration"}

SearchFields == {"name", "type", "type_parameters"}

SearchValues == {<<"f">>, <<"A">>, <<"<T>">>}

\* files of at most MaxMainItems declarations
SmallFiles(l) == UNION {[1..n -> Items(l)] : n \in 0..MaxMainItems}

Cursors(tr) == {n \in 1..Len(tr) : tr[n].parent \in {0, 1}}

InitHelper ==
    /\ lang \in Languages
    /\ file \in SmallFiles(lang)
    /\ source_file = read_to_string(lang, file)
    /\ root_tree = parse(lang, file)
    /\ parent_identifier = None
    /\ function_identifier = None
    /\ located = NotLocated
    /\ edit_id = NoNode
    /\ edit_bytes = <<>>
    /\ rendered = NotRendered
    /\ first_of_kind = NotSearched
    /\ MainIdle

FindFirstOfKindWithFieldValue ==
    /\ ~first_of_kind.called
    /\ \E cursor \in Cursors(root_tree), kind \in SearchKinds(lang),
          field \in SearchFields, value \in SearchValues :
         first_of_kind' =
           [called |-> TRUE, cursor |-> cursor, kind |-> kind,
            field |-> field, value |-> value,
            result |-> find_first_of_kind_with_field_value(
                           source_file, root_tree, cursor, kind, field, value)]
    /\ UNCHANGED <<lang, file, source_file, root_tree, parent_identifier,
                   function_identifier, located, edit_id, edit_bytes,
                   rendered>>
    /\ UNCHANGED main_vars

SpecHelper == InitHelper /\ [][FindFirstOfKindWithFieldValue]_vars

\* detect_language called as a function on the file names of at most
\* MaxNameLen characters over the characters of the globs
NameChars == {".", "c", "g", "j", "m", "o", "r", "s", "t"}

Names == UNION {[1..n -> NameChars] : n \in 0..MaxNameLen}

InitDetect ==
    /\ pc = "detect"
    /\ file_name \in Names
    /\ lang = None
    /\ located = NotLocated
    /\ file = <<>>
    /\ source_file = <<>>
    /\ root_tree = NoTree
    /\ parent_identifier = None
    /\ function_identifier = None
    /\ edit_id = NoNode
    /\ edit_bytes = <<>>
    /\ rendered = NotRendered
    /\ first_of_kind = NotSearched
    /\ api_key = FALSE
    /\ dry_run = FALSE
    /\ skip_prompt = FALSE
    /\ code = <<>>
    /\ tree = NoTree
    /\ function_node_id = 0
    /\ suggestion = <<>>
    /\ answer = None
    /\ edited_file = <<>>
    /\ disk = <<>>
    /\ trace = <<>>

\* detect_language(file_name): the language, or the failure
DetectLanguage ==
    /\ pc = "detect"
    /\ pc' = "detected"
    /\ located' = detect_language(file_name)
    /\ lang' = IF detect_language(file_name).tag = "Ok"
               THEN detect_language(file_name).msg ELSE None
    /\ UNCHANGED <<file, source_file, root_tree, parent_identifier,
                   function_identifier, edit_id, edit_bytes, rendered,
                   first_of_kind, api_key, file_name, dry_run, skip_prompt,
                   code, tree,
                   function_node_id, suggestion, answer, edited_file, disk,
                   trace>>

SpecDetect == InitDetect /\ [][DetectLanguage]_vars

-----------------------------------------------------------------------------
(* main.rs: the command-line pipeline *)

FileNames ==
    {<<"a", ".", "r", "s">>, <<"a", ".", "g", "o">>, <<"a", ".", "j", "s">>,
     <<"a", ".", "t", "s">>, <<"a", ".", "p", "y">>}

\* the declarations the files main is run on are made of
MainItems(l) ==
    CASE l = "rust" ->
           {Free("f"), Nested("g", "f"), Container("A", "plain", "f"),
            Container("B", "plain", "f")}
      [] l = "go" -> {Free("f"), Container("A", "value", "f")}
      [] OTHER ->
           {Free("f"), Container("A", "plain", "f"),
            Binding("f", "arrow_function")}

\* the files on disk main is run on: source files of the language the name
\* stands for, and one file for a name of no supported language
MainFiles(name) ==
    IF detect_language(name).tag = "Ok"
    THEN UNION {[1..n -> MainItems(detect_language(name).msg)] :
                  n \in 0..MaxMainItems}
    ELSE {<<>>}

OPTIMAL == <<"OPTIMAL">>

\* a comparison that never sees the sentinel
is_optimal_never(s) == FALSE

\* main: &suggestion == "OPTIMAL"
is_optimal(s) == s = OPTIMAL

\* what the completion service may answer for a piece of code: the
\* sentinel, other text, and the code unchanged
Suggestions(c) == {OPTIMAL, <<"x", " ", "y">>, c}

Init ==
    /\ pc = "start"
    /\ api_key \in BOOLEAN
    /\ file_name \in FileNames
    /\ file \in MainFiles(file_name)
    /\ disk = IF detect_language(file_name).tag = "Ok"
              THEN read_to_string(detect_language(file_name).msg, file)
              ELSE <<"\n">>
    /\ parent_identifier \in Queries(ParentNames)
    /\ function_identifier \in Queries(FunctionNames)
    /\ dry_run \in BOOLEAN
    /\ skip_prompt \in BOOLEAN
    /\ lang = None
    /\ source_file = <<>>
    /\ code = <<>>
    /\ tree = NoTree
    /\ function_node_id = 0
    /\ suggestion = <<>>
    /\ answer = None
    /\ edited_file = <<>>
    /\ trace = <<>>
    /\ root_tree = NoTree
    /\ located = NotLocated
    /\ edit_id = NoNode
    /\ edit_bytes = <<>>
    /\ rendered = NotRendered
    /\ first_of_kind = NotSearched

Goto(stage) ==
    /\ pc' = stage
    /\ trace' = Append(trace, pc)

\* main: the OPENAI_API_KEY environment variable, or panic
CheckKey ==
    /\ pc = "start"
    /\ Goto(IF api_key THEN "new" ELSE "panic")
    /\ UNCHANGED <<lang, file, source_file, root_tree, parent_identifier,
                   function_identifier, api_key, file_name, dry_run,
                   skip_prompt, code, tree, function_node_id, suggestion,
                   answer, edited_file, disk>>
    /\ UNCHANGED lib_vars

\* Optimizer::new: detect_language(file_name).unwrap() and
\* read_to_string(file_name).unwrap()
New ==
    /\ pc = "new"
    /\ IF detect_language(file_name).tag = "Ok"
       THEN /\ lang' = detect_language(file_name).msg
            /\ source_file' = disk
            /\ Goto("build")
       ELSE /\ Goto("panic")
            /\ UNCHANGED <<lang, source_file>>
    /\ code' = <<>>
    /\ tree' = NoTree
    /\ function_node_id' = 0
    /\ UNCHANGED <<file, root_tree, parent_identifier, function_identifier,
                   api_key, file_name, dry_run, skip_prompt, suggestion,
                   answer, edited_file, disk>>
    /\ UNCHANGED lib_vars

\* the search of Optimizer::build in a parsed tree: the first node of kind
\* "function_item" in pre-order whose name is the function name
build_find(tr, src, function) ==
    find(traverse(tr, root_node(tr)),
         LAMBDA n : /\ tr[n].kind = "function_item"
                    /\ child_by_field_name(tr, n, "name") = NoNode,
         LAMBDA n : /\ tr[n].kind = "function_item"
                    /\ child_by_field_name(tr, n, "name") # NoNode
                    /\ node_value(src, tr, child_by_field_name(tr, n, "name"))
                         = Str(function))

\* a build that reports success when the function was not found
build_result_ignore_failure(tr, src, node) ==
    IF node.tag = "Some"
    THEN [tag |-> "Ok", set |-> TRUE, node |-> node.node, tree |-> tr,
          code |-> node_value(src, tr, node.node)]
    ELSE [tag |-> "Ok", set |-> FALSE, node |-> 0, tree |-> NoTree,
          code |-> <<>>]

build_result(tr, src, node) ==
    IF node.tag = "Some"
    THEN [tag |-> "Ok", set |-> TRUE, node |-> node.node, tree |-> tr,
          code |-> node_value(src, tr, node.node)]
    ELSE [tag |-> IF node.tag = "Panic" THEN "Panic" ELSE "Err",
          set |-> FALSE, node |-> 0, tree |-> NoTree, code |-> <<>>]

build_in(tr, src, function) ==
    build_result(tr, src, build_find(tr, src, function))

\* Optimizer::build: with a function name, parse the source, search it and
\* store the node's identity, the tree and the node's text; without one,
\* do nothing
build(l, f, src, function) ==
    IF function = None
    THEN [tag |-> "Ok", set |-> FALSE, node |-> 0, tree |-> NoTree, code |-> <<>>]
    ELSE build_in(parse(l, f), src, function)

\* main: if let Err(e) = opt.build() { panic!(..) }
Build ==
    /\ pc = "build"
    /\ \E b \in {build(lang, file, source_file, function_identifier)} :
           /\ Goto(IF b.tag = "Ok" THEN "optimise" ELSE "panic")
           /\ function_node_id' = IF b.set THEN b.node ELSE function_node_id
           /\ tree' = IF b.set THEN b.tree ELSE tree
           /\ code' = IF b.set THEN b.code ELSE code
    /\ UNCHANGED <<lang, file, source_file, root_tree, parent_identifier,
                   function_identifier, api_key, file_name, dry_run,
                   skip_prompt, suggestion, answer, edited_file, disk>>
    /\ UNCHANGED lib_vars

\* Optimizer::optimise and main's match on its result: an error of the
\* request panics, "OPTIMAL" ends the run, any other suggestion is printed
Optimise ==
    /\ pc = "optimise"
    /\ \/ /\ Goto("panic")
          /\ UNCHANGED suggestion
       \/ \E s \in Suggestions(code) :
            /\ suggestion' = s
            /\ Goto(IF is_optimal(s) THEN "done" ELSE "confirm")
    /\ UNCHANGED <<lang, file, source_file, root_tree, parent_identifier,
                   function_identifier, api_key, file_name, dry_run,
                   skip_prompt, code, tree, function_node_id, answer,
                   edited_file, disk>>
    /\ UNCHANGED lib_vars

\* main: Confirm::new("Apply suggestion?").prompt().unwrap() unless
\* skip_prompt; the answer is dropped.  Then dry_run decides.
Confirm ==
    /\ pc = "confirm"
    /\ IF skip_prompt
       THEN /\ UNCHANGED answer
            /\ Goto(IF dry_run THEN "done" ELSE "edit")
       ELSE \E a \in {"yes", "no", "canceled"} :
              /\ answer' = a
              /\ Goto(IF a = "canceled" THEN "panic"
                      ELSE IF dry_run THEN "done" ELSE "edit")
    /\ UNCHANGED <<lang, file, source_file, root_tree, parent_identifier,
                   function_identifier, api_key, file_name, dry_run,
                   skip_prompt, code, tree, function_node_id, suggestion,
                   edited_file, disk>>
    /\ UNCHANGED lib_vars

\* main: let edited_file = opt.edit_source_file(suggestion.as_bytes())
Edit ==
    /\ pc = "edit"
    /\ LET r == edit_source_file(tree, source_file, function_node_id, suggestion)
       IN  /\ Goto(IF r.tag = "Ok" THEN "write" ELSE "panic")
           /\ edited_file' = r.text
    /\ UNCHANGED <<lang, file, source_file, root_tree, parent_identifier,
                   function_identifier, api_key, file_name, dry_run,
                   skip_prompt, code, tree, function_node_id, suggestion,
                   answer, disk>>
    /\ UNCHANGED lib_vars

\* main: open the file with write and truncate, write the edited file
Write ==
    /\ pc = "write"
    /\ \/ /\ Goto("panic")
          /\ UNCHANGED disk
       \/ /\ Goto("panic")
          /\ disk' = <<>>
       \/ /\ Goto("done")
          /\ disk' = edited_file
    /\ UNCHANGED <<lang, file, source_file, root_tree, parent_identifier,
                   function_identifier, api_key, file_name, dry_run,
                   skip_prompt, code, tree, function_node_id, suggestion,
                   answer, edited_file>>
    /\ UNCHANGED lib_vars

Next == CheckKey \/ New \/ Build \/ Optimise \/ Confirm \/ Edit \/ Write

Spec == Init /\ [][Next]_vars

-----------------------------------------------------------------------------
(* What the declarations of the file say about a node of its tree *)

\* the top-level declaration a node lies in: its index in the file, 0 for
\* the root
ItemIndex(tr, n) ==
    LET top == children(tr, 1)
        at == {i \in 1..Len(top) : top[i] <= n /\ n <= tr[top[i]].last}
    IN  IF at = {} THEN 0 ELSE CHOOSE i \in at : TRUE

\* the kind of node a method of a container is
MethodKind(l) ==
    CASE l = "rust" -> "function_item"
      [] l = "go" -> "method_declaration"
      [] OTHER -> "method_definition"

\* the text of the name of a declaration node
NameOf(src, tr, n) ==
    IF child_by_field_name(tr, n, "name") = NoNode THEN <<>>
    ELSE node_value(src, tr, child_by_field_name(tr, n, "name"))

\* n is a method named m declared inside a container named p
IsMethodOf(l, f, src, tr, n, p, m) ==
    /\ ItemIndex(tr, n) # 0
    /\ f[ItemIndex(tr, n)].t = "container"
    /\ f[ItemIndex(tr, n)].p = p
    /\ f[ItemIndex(tr, n)].n = m
    /\ tr[n].kind = MethodKind(l)
    /\ NameOf(src, tr, n) = Str(m)

\* the file declares a container named p
HasContainer(f, p) == \E i \in 1..Len(f) : f[i].t = "container" /\ f[i].p = p

Called == located # NotLocated

\* find_correct_node has just returned: nothing was rendered yet
Returned == Called /\ rendered = NotRendered

-----------------------------------------------------------------------------
(* Claims *)

\* C1: rendering a replacement for a located node yields
\* source[0..start] ++ replacement ++ source[end..], so no byte outside the
\* node's span is altered, and the length of the result is
\* len(source) - len(span) + len(replacement).
C1_RenderSplices ==
    (rendered.tag = "Ok" /\ located.tag = "Ok" /\ edit_id = located.node) =>
        LET n == root_tree[edit_id]
        IN  /\ rendered.text = Slice(source_file, 0, n.start) \o edit_bytes
                                 \o Slice(source_file, n.end, Len(source_file))
            /\ Len(rendered.text) =
                 Len(source_file) - (n.end - n.start) + Len(edit_bytes)

\* a located method in the middle of the file was replaced by other text
C1_Witness ==
    /\ rendered.tag = "Ok"
    /\ located.tag = "Ok"
    /\ edit_id = located.node
    /\ root_tree[edit_id].start > 0
    /\ root_tree[edit_id].end < Len(source_file) - 1
    /\ root_tree[edit_id].parent # 1
    /\ edit_bytes = <<"x", " ", "y">>

\* C2: with function_identifier absent every strategy returns the root of
\* the tree, whatever parent_identifier is, never a failure, and the text of
\* the root is the whole source text.
C2_NoFunctionIsRoot ==
    (Called /\ function_identifier = None) =>
        /\ located.tag = "Ok"
        /\ root_tree[located.node].parent = 0
        /\ node_value(source_file, root_tree, located.node) = source_file

\* no function, a parent that matches no container of a file with
\* declarations, and the root came back
C2_Witness ==
    /\ Called
    /\ function_identifier = None
    /\ parent_identifier # None
    /\ ~HasContainer(file, parent_identifier)
    /\ Len(file) > 1
    /\ located.tag = "Ok"

C6_RoundTrip ==
    (rendered.tag = "Ok" /\ located.tag = "Ok" /\ edit_id = located.node
     /\ edit_bytes = node_value(source_file, root_tree, edit_id)) =>
        rendered.text = source_file

\* a located declaration that is not the root and has text before and after
\* it was replaced by its own text
C6_Witness ==
    /\ rendered.tag = "Ok"
    /\ located.tag = "Ok"
    /\ edit_id = located.node
    /\ edit_id # 1
    /\ root_tree[edit_id].start > 0
    /\ edit_bytes = node_value(source_file, root_tree, edit_id)
    /\ edit_bytes # <<"x", " ", "y">>

\* the kinds of node a free function-like declaration is
FreeKinds(l) ==
    CASE l = "rust" -> {"function_item"}
      [] l = "go" -> {"function_declaration"}
      [] OTHER -> {"function_declaration", "lexical_declaration"}

\* n is a declaration of one of these kinds named m; a lexical declaration
\* is named by its first declarator
Declares(l, src, tr, n, m) ==
    /\ tr[n].kind \in FreeKinds(l)
    /\ IF tr[n].kind = "lexical_declaration"
       THEN /\ child(tr, n, 1) # NoNode
            /\ NameOf(src, tr, child(tr, n, 1)) = Str(m)
       ELSE NameOf(src, tr, n) = Str(m)

\* C4, as claimed: with a function and no parent, only top-level free
\* declarations are searched; a method of a container or a nested
\* declaration is never returned.
C4_OnlyTopLevelFree ==
    (parent_identifier = None /\ function_identifier # None
     /\ located.tag = "Ok") =>
        /\ root_tree[located.node].parent = 1
        /\ file[ItemIndex(root_tree, located.node)].t # "container"

\* C4, amended: with a function F and no parent the whole tree is searched:
\* the result is the first node in pre-order of the language's free
\* function kinds that declares F (a function_declaration before any
\* lexical_declaration in JavaScript and TypeScript), wherever it is
\* declared, and "function not found" exactly when there is none.  A Go
\* method_declaration or a class's method_definition is never returned.
C4_FirstInWholeTree ==
    (Called /\ parent_identifier = None /\ function_identifier # None) =>
        LET F == function_identifier
            named == {n \in 1..Len(root_tree) :
                        Declares(lang, source_file, root_tree, n, F)}
            n == located.node
        IN  /\ located.tag \in {"Ok", "Err"}
            /\ located.tag = "Err" <=> named = {}
            /\ located.tag = "Err" => located.msg = "function not found"
            /\ located.tag = "Ok" =>
                 /\ n \in named
                 /\ \A m \in named :
                      \/ root_tree[m].kind = root_tree[n].kind /\ n <= m
                      \/ root_tree[n].kind = "function_declaration"
                         /\ root_tree[m].kind = "lexical_declaration"

\* no parent, and the node returned for f is a method of a container (Rust)
\* or a nested declaration, although a free f follows
C4_Witness ==
    /\ parent_identifier = None
    /\ function_identifier = "f"
    /\ located.tag = "Ok"
    /\ root_tree[located.node].parent # 1
    /\ \E i \in 1..Len(file) : file[i].t = "free" /\ file[i].n = "f"

ParentNotFound == {"impl block not found", "class not found"}
FunctionNotFound == {"function not found", "method not found"}

\* the file declares something named m
HasName(f, m) ==
    \E i \in 1..Len(f) : f[i].n = m \/ (f[i].t = "nested" /\ f[i].p = m)

\* C5: in every strategy a function name that does not exist yields
\* FunctionNotFound, a parent that matches no container yields
\* ParentNotFound, before and instead of the function failure.
C5_FailureKinds ==
    (Called /\ function_identifier # None /\ located.tag # "Panic") =>
        /\ (parent_identifier # None /\ ~HasContainer(file, parent_identifier))
             => (located.tag = "Err" /\ located.msg \in ParentNotFound)
        /\ ((parent_identifier = None \/ HasContainer(file, parent_identifier))
            /\ ~HasName(file, function_identifier))
             => (located.tag = "Err" /\ located.msg \in FunctionNotFound)

LastStage == IF trace = <<>> THEN None ELSE trace[Len(trace)]

\* C7: every locate or render operation returns a success value or a
\* failure value for every input; none aborts the process.
C7_NeverAborts ==
    /\ located.tag # "Panic"
    /\ ~(pc = "panic" /\ LastStage = "edit")

\* C8: render fails with NodeNotFound when the identity is that of no node
\* of the tree; it never returns output as if the edit had succeeded.
C8_StaleIdentityFails ==
    (rendered # NotRendered /\ ~IsNode(root_tree, edit_id)) =>
        rendered.tag = "NodeNotFound"

\* C9: the node build stores, whose text is sent for rewriting and whose
\* span is replaced, is the node the detected language's find_correct_node
\* returns for the (parent, function) of the command line.
C9_BuildUsesStrategy ==
    (LastStage = "build" /\ function_identifier # None) =>
        \E r \in {find_correct_node(lang, source_file, parse(lang, file),
                                    parent_identifier, function_identifier)} :
            IF pc = "optimise"
            THEN /\ r.tag = "Ok"
                 /\ function_node_id = r.node
                 /\ code = node_value(source_file, tree, r.node)
            ELSE r.tag # "Ok"

\* C10: without a function name the pipeline works on the whole file: after
\* build the code handed to the rewriting step is the whole source text and
\* the stored tree and identity are the root's; applying a replacement
\* succeeds and gives the replacement as the new file.
C10_WholeFile ==
    /\ (function_identifier = None /\ LastStage = "build") =>
         /\ pc = "optimise"
         /\ code = source_file
         /\ tree # NoTree
         /\ function_node_id = 1
    /\ (function_identifier = None /\ LastStage = "edit") =>
         /\ pc = "write"
         /\ edited_file = suggestion

\* C11: when the completion service answers the sentinel "OPTIMAL" the run
\* is a no-op: it ends without an error straight after the optimise step,
\* no prompt was answered, nothing was rendered and the file on disk is
\* what was read.
C11_OptimalIsNoOp ==
    (suggestion = OPTIMAL) =>
        /\ pc = "done"
        /\ LastStage = "optimise"
        /\ answer = None
        /\ edited_file = <<>>
        /\ disk = source_file

\* a function was found, neither dry_run nor skip_prompt is set, and the
\* service answered the sentinel
C11_Witness ==
    /\ suggestion = OPTIMAL
    /\ pc = "done"
    /\ function_identifier # None
    /\ code # <<>>
    /\ ~dry_run
    /\ ~skip_prompt

\* C12: with dry_run set no confirmation prompt is shown and the file is
\* never written, whatever the other options are.
C12_DryRunNoPrompt ==
    dry_run =>
        /\ answer = None
        /\ ~(\E i \in 1..Len(trace) : trace[i] \in {"edit", "write"})
        /\ pc \notin {"edit", "write"}

\* the file with every impl block's subject written the other way: bare
\* where it had generic parameters, with generic parameters where it was
\* bare
SwapGeneric(f) ==
    [i \in 1..Len(f) |->
       IF f[i].style = "generic" THEN [f[i] EXCEPT !.style = "plain"]
       ELSE IF f[i].style = "plain" THEN [f[i] EXCEPT !.style = "generic"]
       ELSE f[i]]

\* the impl blocks of the file whose subject is p and that declare m
ImplsOf(f, p, m) ==
    {i \in 1..Len(f) : f[i].t = "container" /\ f[i].p = p /\ f[i].n = m}

\* C13: Rust, parent P and function F: the result does not depend on
\* whether an impl block's subject is written bare or with generic
\* parameters.  The query answers the same declaration, or the same
\* failure, on the file with every subject written the other way, and a
\* method F of an impl block of P, generic or not, is found.
C13_GenericSubject ==
    (lang = "rust" /\ Returned /\ parent_identifier # None
     /\ function_identifier # None) =>
        \E tg \in {parse("rust", SwapGeneric(file))} :
        \E r \in {find_correct_node("rust",
                                    read_to_string("rust", SwapGeneric(file)), tg,
                                    parent_identifier, function_identifier)} :
        LET impls == ImplsOf(file, parent_identifier, function_identifier)
        IN  /\ r.tag = located.tag
            /\ r.msg = located.msg
            /\ located.tag = "Ok" =>
                  /\ ItemIndex(tg, r.node) = ItemIndex(root_tree, located.node)
                  /\ tg[r.node].kind = root_tree[located.node].kind
            /\ impls # {} =>
                  /\ located.tag = "Ok"
                  /\ ItemIndex(root_tree, located.node) \in impls
                  /\ \A i \in impls : ItemIndex(root_tree, located.node) <= i

\* the only impl block of A is written impl<T> A<T>, it comes after an
\* impl block of B, and the query (A, f) found its method
C13_Witness ==
    /\ lang = "rust"
    /\ parent_identifier = "A"
    /\ function_identifier = "f"
    /\ located.tag = "Ok"
    /\ Len(file) >= 2
    /\ file[1] = Container("B", "plain", "f")
    /\ file[ItemIndex(root_tree, located.node)] = Container("A", "generic", "f")
    /\ \A i \in 1..Len(file) : file[i] # Container("A", "plain", "f")

\* the file with every receiver written the other way: a pointer receiver
\* where it was a value receiver, a value receiver where it was a pointer
SwapReceiver(f) ==
    [i \in 1..Len(f) |->
       IF f[i].style = "value" THEN [f[i] EXCEPT !.style = "pointer"]
       ELSE IF f[i].style = "pointer" THEN [f[i] EXCEPT !.style = "value"]
       ELSE f[i]]

\* C14: Go, parent P and function F: the result does not depend on whether
\* a receiver is a value receiver or a pointer receiver.  The query gives
\* the same outcome, and on success the same declaration, on the file with
\* every receiver written the other way; a node it returns is a method F
\* whose receiver type, pointer unwrapped, is P, and the first such method
\* of the file is the one found whenever the call returns.
C14_ValueOrPointerReceiver ==
    (lang = "go" /\ Returned /\ parent_identifier # None
     /\ function_identifier # None) =>
        \E tg \in {parse("go", SwapReceiver(file))} :
        \E r \in {find_correct_node("go",
                                    read_to_string("go", SwapReceiver(file)), tg,
                                    parent_identifier, function_identifier)} :
        LET methods == ImplsOf(file, parent_identifier, function_identifier)
        IN  /\ r.tag = located.tag
            /\ r.msg = located.msg
            /\ located.tag = "Ok" =>
                  /\ ItemIndex(tg, r.node) = ItemIndex(root_tree, located.node)
                  /\ root_tree[located.node].kind = "method_declaration"
                  /\ tg[r.node].kind = "method_declaration"
                  /\ ItemIndex(root_tree, located.node) \in methods
            /\ (methods # {} /\ located.tag # "Panic") =>
                  /\ located.tag = "Ok"
                  /\ \A i \in methods : ItemIndex(root_tree, located.node) <= i

\* the only method f of A has a pointer receiver, it comes after a method f
\* of B, and the query (A, f) found it
C14_Witness ==
    /\ lang = "go"
    /\ parent_identifier = "A"
    /\ function_identifier = "f"
    /\ located.tag = "Ok"
    /\ Len(file) >= 2
    /\ file[1] = Container("B", "value", "f")
    /\ file[ItemIndex(root_tree, located.node)] = Container("A", "pointer", "f")
    /\ \A i \in 1..Len(file) : file[i] # Container("A", "value", "f")

\* C15: JavaScript and TypeScript, no parent, a file with a function
\* declaration, a function-expression binding and an arrow-function
\* binding, and the async variant of each, all named differently: locating
\* by a name returns the declaration of that name in its own form, the
\* function_declaration node or the whole lexical declaration, with exactly
\* its text.
C15_EachFormByName ==
    (file \in FormFiles /\ Called) =>
        LET i == CHOOSE k \in 1..Len(file) : file[k].n = function_identifier
            n == located.node
        IN  /\ located.tag = "Ok"
            /\ root_tree[n].parent = root_node(root_tree)
            /\ ItemIndex(root_tree, n) = i
            /\ root_tree[n].kind = IF file[i].t = "free"
                                   THEN "function_declaration"
                                   ELSE "lexical_declaration"
            /\ node_value(source_file, root_tree, n)
                 = TextOf(ItemTree(lang, file[i], <<>>))

\* the async arrow-function binding is the last declaration of the file
\* and was located by its name
C15_Witness ==
    /\ file \in FormFiles
    /\ located.tag = "Ok"
    /\ file[Len(file)] = Binding(function_identifier, "async_arrow_function")
    /\ ItemIndex(root_tree, located.node) = Len(file)
    /\ file[1].t = "binding"

\* the declarations of the file that are containers named p
ContainersOf(f, p) == {i \in 1..Len(f) : f[i].t = "container" /\ f[i].p = p}

\* C16: JavaScript and TypeScript, parent P and function F: only the
\* method_definition members of the class named P are searched.  Without a
\* class P the result is "class not found"; when the class has no method F
\* the result is "method not found"; a free function or a binding named F
\* is never returned.
C16_ClassOnlySearch ==
    (lang \in {"javascript", "typescript"} /\ Called
     /\ parent_identifier # None /\ function_identifier # None) =>
        LET cs == ContainersOf(file, parent_identifier)
            c == CHOOSE i \in cs : \A j \in cs : i <= j
        IN  IF cs = {}
            THEN located = Err("class not found")
            ELSE IF file[c].n = function_identifier
            THEN /\ located.tag = "Ok"
                 /\ root_tree[located.node].kind = "method_definition"
                 /\ ItemIndex(root_tree, located.node) = c
            ELSE located = Err("method not found")

\* class A has no method g while a free declaration named g exists, and the
\* query (A, g) failed with "method not found"
C16_Witness ==
    /\ lang \in {"javascript", "typescript"}
    /\ parent_identifier = "A"
    /\ function_identifier = "g"
    /\ ContainersOf(file, "A") # {}
    /\ \E i \in 1..Len(file) : file[i].t \in {"nested", "binding"} /\ file[i].n = "g"
    /\ located = Err("method not found")

\* the least element of a set of numbers: the first node in pre-order, the
\* first declaration of the file
Min(S) == CHOOSE x \in S : \A y \in S : x <= y

\* the declarations that could match the query: without a parent the nodes
\* of a free function kind that declare F, with a parent P the methods
\* named F of the containers named P
Candidates(l, f, src, tr, p, m) ==
    IF p = None
    THEN {n \in 1..Len(tr) : Declares(l, src, tr, n, m)}
    ELSE {n \in 1..Len(tr) : /\ tr[n].kind = MethodKind(l)
                              /\ IsMethodOf(l, f, src, tr, n, p, m)}

\* C17, as claimed: whenever more than one declaration could match the
\* query, exactly one node is returned and it is the candidate that comes
\* first in pre-order.
C17_FirstInPreOrder ==
    (Returned /\ function_identifier # None) =>
        \E cands \in {Candidates(lang, file, source_file, root_tree,
                                  parent_identifier, function_identifier)} :
            Cardinality(cands) > 1 =>
              /\ located.tag = "Ok"
              /\ located.node = Min(cands)

\* the Go method declarations of the file whose receiver list is empty
NoReceivers(f) == {i \in 1..Len(f) : f[i].t = "noreceiver"}

\* C17, amended: whenever more than one declaration could match the query,
\* at most one node is returned, chosen as follows.  Rust and Go: the first
\* candidate in pre-order (in Go the call aborts instead when a method with
\* an empty receiver list is declared before it).  JavaScript and
\* TypeScript without a parent: the first function_declaration candidate
\* in pre-order if there is one, also when a binding of that name comes
\* before it, else the first lexical_declaration candidate.  JavaScript and
\* TypeScript with a parent: only the first class of that name is searched,
\* so the result is its first method of that name, or "method not found"
\* when it has none, also when a later class of the same name has one.
C17_FirstPerStrategy ==
    (Returned /\ function_identifier # None) =>
        \E cands \in {Candidates(lang, file, source_file, root_tree,
                                  parent_identifier, function_identifier)} :
        LET decls == {n \in cands : root_tree[n].kind = "function_declaration"}
            class == Min(ContainersOf(file, parent_identifier))
        IN  Cardinality(cands) > 1 =>
              CASE lang = "rust" -> located = Ok(Min(cands))
                [] lang = "go" ->
                     IF parent_identifier # None
                        /\ \E i \in NoReceivers(file) :
                              i < ItemIndex(root_tree, Min(cands))
                     THEN located = Panic
                     ELSE located = Ok(Min(cands))
                [] OTHER ->
                     IF parent_identifier = None
                     THEN located = Ok(IF decls # {} THEN Min(decls) ELSE Min(cands))
                     ELSE IF file[class].n = function_identifier
                     THEN located = Ok(Min(cands))
                     ELSE located = Err("method not found")

\* JavaScript or TypeScript, no parent: a binding named f comes before a
\* function declaration named f and the function declaration was returned
C17_Witness ==
    /\ lang \in {"javascript", "typescript"}
    /\ parent_identifier = None
    /\ function_identifier = "f"
    /\ located.tag = "Ok"
    /\ file[1] = Binding("f", "arrow_function")
    /\ root_tree[located.node].kind = "function_declaration"
    /\ ItemIndex(root_tree, located.node) > 1

\* the name ends with the suffix
EndsWith(name, suffix) ==
    /\ Len(name) >= Len(suffix)
    /\ SubSeq(name, Len(name) - Len(suffix) + 1, Len(name)) = suffix

\* the suffixes of a language
Suffixes(l) ==
    CASE l = "rust" -> {<<".", "r", "s">>}
      [] l = "go" -> {<<".", "g", "o">>}
      [] l = "javascript" ->
           {<<".", "j", "s">>, <<".", "m", "j", "s">>, <<".", "c", "j", "s">>}
      [] OTHER -> {<<".", "t", "s">>}

\* C18: detect_language answers the one language one of whose suffixes the
\* file name ends with (.rs Rust, .go Go, .js .mjs .cjs JavaScript, .ts
\* TypeScript), and the failure "not a supported file" for a name that ends
\* with none; no name matches the globs of two languages.
C18_DetectBySuffix ==
    (pc = "detected") =>
        LET by_suffix == {l \in Languages :
                            \E x \in Suffixes(l) : EndsWith(file_name, x)}
            by_glob == {l \in Languages :
                          \E patt \in language_globs(l) : matches(patt, file_name)}
        IN  /\ Cardinality(by_glob) <= 1
            /\ by_suffix = {} => (located = Err("not a supported file")
                                  /\ lang = None)
            /\ by_suffix # {} => (located.tag = "Ok" /\ by_suffix = {lang})

\* a name ending in .mjs was detected as JavaScript
C18_Witness ==
    /\ pc = "detected"
    /\ file_name = <<".", "m", "j", "s">>
    /\ lang = "javascript"

\* the identifiers of the query
QueryIdentifiers == {parent_identifier, function_identifier} \ {None}

\* the failure messages that name an identifier: a failure kind followed by
\* the identifier
Naming(ids) ==
    {kind \o ": " \o id : kind \in ParentNotFound \cup FunctionNotFound, id \in ids}

\* C19: every failure a strategy returns carries an identifier of the
\* query that failed to resolve.
C19_FailureNamesIdentifier ==
    (located.tag = "Err") => located.msg \in Naming(QueryIdentifiers)

\* the nodes of the cursor's subtree that the search is for: of the kind,
\* with a child in the field, the first such child having the value as its
\* text.  Stated over the arena, without the traversal.
Sought(src, tr, c) ==
    {n \in c.cursor..tr[c.cursor].last :
       /\ tr[n].kind = c.kind
       /\ LET in_field == {k \in 1..Len(tr) : tr[k].parent = n
                                               /\ tr[k].field = c.field}
          IN  /\ in_field # {}
              /\ SubSeq(src, tr[Min(in_field)].start + 1, tr[Min(in_field)].end)
                   = c.value}

\* C20: find_first_of_kind_with_field_value returns the first node in
\* pre-order of the cursor's subtree whose kind is the kind and whose child
\* in the field has exactly the value as its text; a node of the kind
\* without the field is passed over; no node outside the subtree is
\* returned; the result is None exactly when there is no such node.
C20_FirstOfKindWithFieldValue ==
    first_of_kind.called =>
        LET c == first_of_kind
            sought == Sought(source_file, root_tree, c)
        IN  /\ c.result = NoNode <=> sought = {}
            /\ c.result # NoNode =>
                  /\ c.result = Min(sought)
                  /\ c.cursor <= c.result
                  /\ c.result <= root_tree[c.cursor].last

\* the cursor is on the second declaration, the first declaration holds a
\* node that would match, and the node found is in the second
C20_Witness ==
    /\ first_of_kind.called
    /\ first_of_kind.cursor # 1
    /\ ItemIndex(root_tree, first_of_kind.cursor) = 2
    /\ first_of_kind.result # NoNode
    /\ Sought(source_file, root_tree, [first_of_kind EXCEPT !.cursor = 1])
         # Sought(source_file, root_tree, first_of_kind)

\* the kinds of initializer that make a binding a function
FunctionValues == {"arrow_function", "function_expression"}

\* the node is a lexical_declaration whose first declarator is initialized
\* with a function expression or an arrow function
BindsFunction(tr, n) ==
    /\ tr[n].kind = "lexical_declaration"
    /\ child(tr, n, 1) # NoNode
    /\ child_by_field_name(tr, child(tr, n, 1), "value") # NoNode
    /\ tr[child_by_field_name(tr, child(tr, n, 1), "value")].kind
         \in FunctionValues

\* C21: JavaScript and TypeScript, no parent: a lexical_declaration is
\* returned for the name F only if the binding named F is initialized with
\* a function expression or an arrow function; a binding with another
\* initializer is no match, and the query fails with "function not found"
\* when nothing else matches.
C21_OnlyFunctionBindings ==
    (lang \in {"javascript", "typescript"} /\ Called
     /\ parent_identifier = None /\ function_identifier # None) =>
        /\ (located.tag = "Ok"
            /\ root_tree[located.node].kind = "lexical_declaration")
             => BindsFunction(root_tree, located.node)
        /\ (\A n \in 1..Len(root_tree) :
               Declares(lang, source_file, root_tree, n, function_identifier)
                 => (root_tree[n].kind = "lexical_declaration"
                     /\ ~BindsFunction(root_tree, n)))
             => located = Err("function not found")

\* C22: JavaScript and TypeScript, no parent: the forms are tried in a
\* fixed order.  A function_declaration named F anywhere in the file, the
\* first in pre-order, is returned whether or not a binding named F comes
\* before it; the first lexical_declaration binding F is returned only
\* when there is no such function_declaration; "function not found" is
\* returned only when there is neither.
C22_DeclarationBeforeBinding ==
    (lang \in {"javascript", "typescript"} /\ Returned
     /\ parent_identifier = None /\ function_identifier # None) =>
        \E named \in {{n \in 1..Len(root_tree) :
                         Declares(lang, source_file, root_tree, n,
                                  function_identifier)}} :
        LET decls == {n \in named : root_tree[n].kind = "function_declaration"}
        IN  IF decls # {} THEN located = Ok(Min(decls))
            ELSE IF named # {} THEN located = Ok(Min(named))
            ELSE located = Err("function not found")

\* a binding named f is the first declaration of the file, a function
\* declaration named f is nested in the body of a later function g, and
\* the nested declaration was returned
C22_Witness ==
    /\ lang \in {"javascript", "typescript"}
    /\ parent_identifier = None
    /\ function_identifier = "f"
    /\ located.tag = "Ok"
    /\ file[1] = Binding("f", "arrow_function")
    /\ root_tree[located.node].kind = "function_declaration"
    /\ root_tree[located.node].parent # root_node(root_tree)
    /\ file[ItemIndex(root_tree, located.node)] = Nested("g", "f")

\* the stages of main in their order: the environment, Optimizer::new
\* (detect the language, read the file), build (parse, locate), optimise
\* (obtain the replacement), the prompt, edit_source_file (render), write
Stages == <<"start", "new", "build", "optimise", "confirm", "edit", "write">>

\* main has entered the stage
Entered(stage) == pc = stage \/ \E i \in 1..Len(trace) : trace[i] = stage

\* C23: in every run the stages occur in the fixed order, each at most
\* once, and a failed stage ends the run: a failed language detection or a
\* failed locate is never followed by a later stage.  The file is written
\* only after every earlier stage succeeded: the language was detected, the
\* tree was parsed and stored, a node of it was located, a replacement
\* other than the sentinel was obtained and rendered.  Rendering leaves the
\* source buffer and the tree as they were.
C23_StagesInOrder ==
    /\ Len(trace) <= Len(Stages)
    /\ trace = SubSeq(Stages, 1, Len(trace))
    /\ pc \in {"done", "panic"} \/ (Len(trace) < Len(Stages)
                                      /\ pc = Stages[Len(trace) + 1])
    /\ (Entered("new") /\ pc # "new" /\ lang = None)
         => (pc = "panic" /\ LastStage = "new")
    /\ (Entered("build") /\ pc # "build" /\ function_identifier # None
        /\ tree = NoTree)
         => (pc = "panic" /\ LastStage = "build")
    /\ disk # (IF lang = None THEN disk ELSE source_file) => Entered("write")
    /\ Entered("write") =>
         /\ lang \in Languages
         /\ source_file = read_to_string(lang, file)
         /\ tree = parse(lang, file)
         /\ IsNode(tree, function_node_id)
         /\ code = node_value(source_file, tree, function_node_id)
         /\ suggestion # OPTIMAL
         /\ edited_file = do_render(tree, source_file, function_node_id,
                                    suggestion)

\* a run that went through every stage and wrote a file that differs from
\* the source
C23_Witness ==
    /\ pc = "done"
    /\ LastStage = "write"
    /\ disk = edited_file
    /\ disk # source_file
    /\ Len(file) > 1

\* C24: when skip_prompt is not set the file is overwritten only if the
\* user answered yes to "Apply suggestion?"; after any other answer the
\* run neither renders nor writes and the file stays as it was read.
C24_WriteOnlyOnYes ==
    ~skip_prompt =>
        /\ (Entered("edit") \/ Entered("write")) => answer = "yes"
        /\ (lang # None /\ answer # "yes") => disk = source_file

=============================================================================
